---- MODULE Spec2Model ----
(***************************************************************************)
(* Model of the TLS-terminating proxy reactor of trojan-rs:                *)
(*   src/server/tcp_backend.rs  (TcpBackend, one backend connection)       *)
(*   src/server/tls_server.rs   (TlsServer, Backend trait defaults)        *)
(*                                                                         *)
(* Spec       drives one TcpBackend through its Backend operations with    *)
(*            every socket / poller outcome.                               *)
(* SpecServer drives the TlsServer connection table (accept, do_conn_event,*)
(*            check_timeout) and its index allocator.                      *)
(*                                                                         *)
(* Bytes are modelled by their dispatch sequence number, so that order,    *)
(* loss and duplication on the way to the socket are observable.           *)
(***************************************************************************)
EXTENDS Integers, Sequences, FiniteSets, TLC

\* ---------------------------------------------------------------- bounds
\* total number of bytes ever handed to dispatch
MaxBytes == 3
\* largest slice handed to one dispatch call
MaxChunk == 2

\* total number of connection indices ever allocated by accept
MaxConns == 3
\* streams pending on the listener at one accept call
MaxPending == 3
\* last instant of the clock
MaxTime == 2

\* ------------------------------------------------------------- constants
\* crate::proto::MAX_BUFFER_SIZE, scaled down
MAX_BUFFER_SIZE == 2
\* crate::server::{MIN_INDEX, MAX_INDEX, CHANNEL_CNT, CHANNEL_PROXY};
\* MAX_INDEX is scaled down so that the allocator wraps
MIN_INDEX == 2
MAX_INDEX == 3
CHANNEL_CNT == 2
CHANNEL_PROXY == 0
\* the idle durations get_timeout() returns for the configured backend kinds
Timeouts == {1, 2}

VARIABLES
    status,        \* TcpBackend.status
    readiness,     \* TcpBackend.readiness : subset of {"readable","writable"}
    send_buffer,   \* TcpBackend.send_buffer
    sent,          \* bytes the socket has accepted so far, in order
    registered,    \* the socket is registered with the poller
    polled,        \* interest set the poller holds for the socket
    sock_shutdown, \* conn.shutdown(Both) has been issued
    next_byte,     \* sequence number of the next byte to be dispatched
    last           \* the last operation: name, arguments, outcomes

bvars == <<status, readiness, send_buffer, sent, registered, polled,
           sock_shutdown, next_byte, last>>

\* TlsServer
VARIABLES
    next_id,       \* TlsServer.next_id
    conns,         \* TlsServer.conns : index -> connection
    allocs,        \* every index next_index has returned, in order
    panicked,      \* accept hit a hard error and the reactor terminated
    now,           \* the clock
    slast          \* the last reactor operation: name, arguments, outcomes

svars == <<next_id, conns, allocs, panicked, now, slast>>

vars == <<bvars, svars>>

ConnStatus == {"Established", "Shutdown", "Closing", "Closed"}

\* position of a status on the path Established -> Shutdown -> Closing -> Closed
Rank(s) ==
    CASE s = "Established" -> 0
      [] s = "Shutdown"    -> 1
      [] s = "Closing"     -> 2
      [] s = "Closed"      -> 3

Ready == SUBSET {"readable", "writable"}

\* ------------------------------------------------------ the backend value
\* The fields of the backend plus what the environment observes of it.
\* trace: the statuses assigned during the running operation, in order.
\* io   : the socket reads / writes attempted during the running operation,
\*        each with the status at the time of the attempt.
\* regs : number of poll.reregister calls made by the running operation.
Self ==
    [status        |-> status,
     readiness     |-> readiness,
     send_buffer   |-> send_buffer,
     sent          |-> sent,
     registered    |-> registered,
     polled        |-> polled,
     sock_shutdown |-> sock_shutdown,
     trace         |-> <<>>,
     io            |-> <<>>,
     regs          |-> 0,
     wfail         |-> FALSE,
     rfail         |-> FALSE,
     pfail         |-> FALSE]

set_status(b, s) ==
    [b EXCEPT !.status = s, !.trace = Append(@, s)]

\* ------------------------------------------------------------- tcp_util
\* Outcomes of one tcp_send of `data`: the socket accepts the first k bytes
\* and then either everything is written ("done"), the socket would block
\* ("block"), or the write fails hard ("fail"; keep tells whether the
\* unwritten remainder is retained in the buffer).
SendOutcomes(data) ==
    IF data = <<>>
    THEN {[k |-> 0, out |-> "done", keep |-> FALSE]}
    ELSE {[k |-> Len(data), out |-> "done", keep |-> FALSE]}
         \cup {[k |-> n, out |-> "block", keep |-> FALSE] : n \in 0..(Len(data) - 1)}
         \cup {[k |-> n, out |-> "fail", keep |-> kp] :
                   n \in 0..(Len(data) - 1), kp \in BOOLEAN}

Rest(data, k) == SubSeq(data, k + 1, Len(data))

\* tcp_util::tcp_send(index, conn, send_buffer, data) -> bool
\* result: the backend after the call; the returned bool is ~wfail.
tcp_send(b, data, o) ==
    IF data = <<>>
    THEN b
    ELSE LET w == [b EXCEPT !.io = Append(@, <<"write", b.status>>),
                            !.sent = @ \o SubSeq(data, 1, o.k)]
         IN  CASE o.out = "done"  -> w
               [] o.out = "block" ->
                    [w EXCEPT !.send_buffer = @ \o Rest(data, o.k)]
               [] o.out = "fail"  ->
                    [w EXCEPT !.send_buffer =
                                  IF o.keep THEN @ \o Rest(data, o.k) ELSE @,
                              !.wfail = TRUE]

\* tcp_util::tcp_read(index, conn, recv_buffer, tls_conn) -> bool
tcp_read(b, ok) ==
    [b EXCEPT !.io = Append(@, <<"read", b.status>>),
              !.rfail = ~ok]

\* ------------------------------------------------------------ TcpBackend
do_read(b, ok) ==
    LET r == tcp_read(b, ok)
    IN  IF r.rfail THEN set_status(r, "Closing") ELSE r

\* do_send without the drain-then-close completion of a Shutdown backend
do_send_no_drain(b, data, o) ==
    LET r == tcp_send([b EXCEPT !.wfail = FALSE], data, o)
    IN  IF r.wfail THEN set_status(r, "Closing") ELSE r

do_send(b, data, o) ==
    LET r == tcp_send([b EXCEPT !.wfail = FALSE], data, o)
    IN  IF r.wfail
        THEN set_status(r, "Closing")
        ELSE IF r.status = "Shutdown" /\ r.send_buffer = <<>>
             THEN set_status(r, "Closing")
             ELSE r

\* setup that logs a failed poll.reregister and carries on
setup_ignores_failure(b, ok) ==
    LET r == [b EXCEPT !.regs = @ + 1]
    IN  IF ok
        THEN [r EXCEPT !.registered = TRUE, !.polled = b.readiness]
        ELSE [r EXCEPT !.pfail = TRUE]

setup(b, ok) ==
    LET r == [b EXCEPT !.regs = @ + 1]
    IN  IF ok
        THEN [r EXCEPT !.registered = TRUE, !.polled = b.readiness]
        ELSE set_status([r EXCEPT !.pfail = TRUE], "Closing")

\* dispatch that flushes a copy of the buffer and leaves the original in place
dispatch_no_split(b, buffer, o) ==
    IF b.send_buffer = <<>>
    THEN do_send(b, buffer, o)
    ELSE do_send(b, b.send_buffer \o buffer, o)

\* dispatch that writes the new bytes ahead of the buffered ones
dispatch_new_first(b, buffer, o) ==
    IF b.send_buffer = <<>>
    THEN do_send(b, buffer, o)
    ELSE do_send([b EXCEPT !.send_buffer = <<>>], buffer \o b.send_buffer, o)

\* dispatch that enforces the buffer bound by rejecting the new bytes
dispatch_bounded(b, buffer, o) ==
    IF b.send_buffer = <<>>
    THEN do_send(b, buffer, o)
    ELSE IF Len(b.send_buffer) >= MAX_BUFFER_SIZE
         THEN do_send([b EXCEPT !.send_buffer = <<>>], b.send_buffer,
                        [o EXCEPT !.k = IF o.k > Len(b.send_buffer)
                                        THEN Len(b.send_buffer) ELSE o.k,
                                  !.out = IF o.k >= Len(b.send_buffer)
                                          THEN "done" ELSE o.out])
         ELSE do_send([b EXCEPT !.send_buffer = <<>>],
                        b.send_buffer \o buffer, o)

dispatch(b, buffer, o) ==
    IF b.send_buffer = <<>>
    THEN do_send(b, buffer, o)
    ELSE LET all == b.send_buffer \o buffer
         IN  do_send([b EXCEPT !.send_buffer = <<>>], all, o)

\* the data the socket is offered by dispatch(buffer) in backend b
Offered(b, buffer) ==
    IF b.send_buffer = <<>> THEN buffer ELSE b.send_buffer \o buffer

\* ready that handles the writable half of the event before the readable one
ready_write_first(b, ev, rok, o) ==
    LET r == IF "writable" \in ev THEN dispatch(b, <<>>, o) ELSE b
    IN  IF "readable" \in ev THEN do_read(r, rok) ELSE r

ready(b, ev, rok, o) ==
    LET r == IF "readable" \in ev THEN do_read(b, rok) ELSE b
    IN  IF "writable" \in ev THEN dispatch(r, <<>>, o) ELSE r

\* check_close that repeats the teardown on a backend already Closed
check_close_again(b) ==
    IF b.status \in {"Closing", "Closed"}
    THEN set_status([b EXCEPT !.registered = FALSE,
                              !.sock_shutdown = TRUE], "Closed")
    ELSE b

check_close(b) ==
    IF b.status = "Closing"
    THEN set_status([b EXCEPT !.registered = FALSE,
                              !.sock_shutdown = TRUE], "Closed")
    ELSE b

\* reregister that never adds readable interest back
reregister_no_readable(b, readable, ok) ==
    CASE b.status = "Closing" -> [b EXCEPT !.registered = FALSE]
      [] b.status = "Closed"  -> b
      [] OTHER ->
           LET c1 == b.send_buffer # <<>> /\ "writable" \notin b.readiness
               w1 == IF c1 THEN b.readiness \cup {"writable"} ELSE b.readiness
               c2 == b.send_buffer = <<>> /\ "writable" \in w1
               w2 == IF c2 THEN w1 \ {"writable"} ELSE w1
               c4 == ~readable /\ "readable" \in w2
               r2 == IF c4 THEN w2 \ {"readable"} ELSE w2
               changed == c1 \/ c2 \/ c4
               r == [b EXCEPT !.readiness = r2]
           IN  IF changed THEN setup(r, ok) ELSE r

\* reregister that skips only a Closed backend: a Closing one is re-synced
\* and re-registered like a live one
reregister_in_closing(b, readable, ok) ==
    IF b.status = "Closed"
    THEN b
    ELSE LET w == IF b.send_buffer # <<>>
                  THEN b.readiness \cup {"writable"}
                  ELSE b.readiness \ {"writable"}
             r2 == IF readable THEN w \cup {"readable"} ELSE w \ {"readable"}
             r == [b EXCEPT !.readiness = r2]
         IN  IF r2 # b.readiness THEN setup(r, ok) ELSE r

reregister(b, readable, ok) ==
    CASE b.status = "Closing" -> [b EXCEPT !.registered = FALSE]
      [] b.status = "Closed"  -> b
      [] OTHER ->
           LET c1 == b.send_buffer # <<>> /\ "writable" \notin b.readiness
               w1 == IF c1 THEN b.readiness \cup {"writable"} ELSE b.readiness
               c2 == b.send_buffer = <<>> /\ "writable" \in w1
               w2 == IF c2 THEN w1 \ {"writable"} ELSE w1
               c3 == readable /\ "readable" \notin w2
               r1 == IF c3 THEN w2 \cup {"readable"} ELSE w2
               c4 == ~readable /\ "readable" \in r1
               r2 == IF c4 THEN r1 \ {"readable"} ELSE r1
               changed == c1 \/ c2 \/ c3 \/ c4
               r == [b EXCEPT !.readiness = r2]
           IN  IF changed THEN setup(r, ok) ELSE r

\* shutdown that re-registers without forcing writable-only interest
shutdown_keeps_interest(b, ok) ==
    IF b.send_buffer = <<>>
    THEN check_close(set_status(b, "Closing"))
    ELSE check_close(setup(set_status(b, "Shutdown"), ok))

\* shutdown that leaves the close check of the empty-buffer path to the caller
shutdown_no_close(b, ok) ==
    IF b.send_buffer = <<>>
    THEN set_status(b, "Closing")
    ELSE check_close(
           setup(set_status([b EXCEPT !.readiness = {"writable"}], "Shutdown"),
                 ok))

shutdown(b, ok) ==
    IF b.send_buffer = <<>>
    THEN check_close(set_status(b, "Closing"))
    ELSE check_close(
           setup(set_status([b EXCEPT !.readiness = {"writable"}], "Shutdown"),
                 ok))

writable(b) == Len(b.send_buffer) < MAX_BUFFER_SIZE

\* ------------------------------------------------------------ TlsServer
Indices == MIN_INDEX..MAX_INDEX

\* the reactor value: the fields of TlsServer plus what the running operation
\* did: the uids of the connections it inserted into the table, removed from
\* it, and called close_now on; the uids of the connections an insert
\* replaced in the table (evicted); the uid of the connection that reported
\* itself destroyed after its event
Srv ==
    [next_id  |-> next_id,
     conns    |-> conns,
     closed   |-> {},
     allocs   |-> allocs,
     panicked |-> panicked,
     inserted |-> {},
     removed  |-> {},
     evicted  |-> {},
     destroyed |-> {}]

\* Token(index * CHANNEL_CNT + CHANNEL_PROXY), the token accept builds
Token(index, slot) == index * CHANNEL_CNT + slot

\* token2index that takes the channel slot for the index
token2index_mod(token) == token % CHANNEL_CNT

token2index(token) == token \div CHANNEL_CNT

\* timeout that already fires when the idle time equals the timeout
timeout_ge(get_timeout, t1, t2) == t2 - t1 >= get_timeout

\* Backend::timeout(t1, t2), with get_timeout() passed in
timeout(get_timeout, t1, t2) == t2 - t1 > get_timeout

\* Connection::new(index, TlsConn::new(index, token, session, stream))
Connection(index, token, uid, tmo, t) ==
    [index |-> index, token |-> token, uid |-> uid,
     get_timeout |-> tmo, last_active |-> t]

\* Connection::timeout(now)
conn_timeout(c, t) == timeout(c.get_timeout, c.last_active, t)

\* m with key k bound to v (HashMap::insert)
Insert(m, k, v) == [x \in DOMAIN m \cup {k} |-> IF x = k THEN v ELSE m[x]]

\* m without the keys in ks (HashMap::remove)
Remove(m, ks) == [x \in DOMAIN m \ ks |-> m[x]]

\* next_index that wraps one index early
next_index_ge(s) ==
    LET n == s.next_id + 1
    IN  [s EXCEPT !.next_id = IF n >= MAX_INDEX THEN MIN_INDEX ELSE n,
                  !.allocs = Append(@, s.next_id)]

\* next_index: the server after the call; the returned index is s.next_id
next_index(s) ==
    LET n == s.next_id + 1
    IN  [s EXCEPT !.next_id = IF n > MAX_INDEX THEN MIN_INDEX ELSE n,
                  !.allocs = Append(@, s.next_id)]

\* one iteration of the accept loop for an accepted stream st;
\* "opt_fail": set_mark or set_nodelay failed (both `continue`)
accept_one(s, st, t) ==
    IF st.out = "opt_fail"
    THEN s
    ELSE LET index == s.next_id
             a == next_index(s)
             conn == Connection(index, Token(index, CHANNEL_PROXY),
                                Len(a.allocs), st.tmo, t)
         IN  IF st.out = "ok"
             THEN [a EXCEPT !.conns = Insert(@, index, conn),
                            !.inserted = @ \cup {conn.uid},
                            !.evicted = IF index \in DOMAIN a.conns
                                        THEN @ \cup {a.conns[index].uid}
                                        ELSE @]
             ELSE [a EXCEPT !.closed = @ \cup {conn.uid}]

RECURSIVE accept_loop(_, _, _)
accept_loop(s, streams, t) ==
    IF streams = <<>>
    THEN s
    ELSE accept_loop(accept_one(s, Head(streams), t), Tail(streams), t)

\* accept: the listener yields `streams` and then `end`
\* ("would_block", or "error" for any other accept error)
accept(s, streams, end, t) ==
    LET r == accept_loop(s, streams, t)
    IN  IF end = "error" THEN [r EXCEPT !.panicked = TRUE] ELSE r

\* Connection::ready(poll, event, opts): the connection may record activity
\* and may end up destroyed
conn_ready(c, touched, t) ==
    IF touched THEN [c EXCEPT !.last_active = t] ELSE c

\* do_conn_event that forwards the event but leaves a destroyed connection
\* in the table
do_conn_event_keeps(s, token, touched, destroyed, t) ==
    LET index == token2index(token)
    IN  IF index \in DOMAIN s.conns
        THEN LET c == conn_ready(s.conns[index], touched, t)
             IN  [s EXCEPT !.conns[index] = c,
                           !.destroyed = IF destroyed THEN {c.uid} ELSE {}]
        ELSE s

do_conn_event(s, token, touched, destroyed, t) ==
    LET index == token2index(token)
    IN  IF index \in DOMAIN s.conns
        THEN LET c == conn_ready(s.conns[index], touched, t)
             IN  IF destroyed
                 THEN [s EXCEPT !.conns = Remove(@, {index}),
                                !.removed = {c.uid},
                                !.destroyed = {c.uid}]
                 ELSE [s EXCEPT !.conns[index] = c]
        ELSE s

\* the first loop of check_timeout over the table in iteration order `order`:
\* the list of indices to remove and the connections closed
RECURSIVE sweep(_, _, _, _)
sweep(s, order, t, list) ==
    IF order = <<>>
    THEN [srv |-> s, list |-> list]
    ELSE LET index == Head(order)
             c == s.conns[index]
         IN  IF conn_timeout(c, t)
             THEN sweep([s EXCEPT !.closed = @ \cup {c.uid}],
                        Tail(order), t, Append(list, index))
             ELSE sweep(s, Tail(order), t, list)

check_timeout(s, check_active_time, order) ==
    LET r == sweep(s, order, check_active_time, <<>>)
        gone == {r.list[i] : i \in 1..Len(r.list)}
    IN  [r.srv EXCEPT !.conns = Remove(@, gone),
                      !.removed = {s.conns[i].uid : i \in gone}]

\* the orders in which a table with key set D can be iterated
Orders(D) ==
    {o \in [1..Cardinality(D) -> D] : \A i, j \in 1..Cardinality(D) : o[i] = o[j] => i = j}

\* --------------------------------------------------------------- actions
\* The fields of backend r become the next state; op records the call.
Becomes(r, op) ==
    /\ status' = r.status
    /\ readiness' = r.readiness
    /\ send_buffer' = r.send_buffer
    /\ sent' = r.sent
    /\ registered' = r.registered
    /\ polled' = r.polled
    /\ sock_shutdown' = r.sock_shutdown
    /\ UNCHANGED svars
    /\ last' = op @@ [trace |-> r.trace, io |-> r.io, regs |-> r.regs,
                      wfail |-> r.wfail, rfail |-> r.rfail, pfail |-> r.pfail,
                      pre_status |-> status, pre_len |-> Len(send_buffer),
                      pre_writable |-> writable(Self)]

NoCall == [op |-> "new", n |-> 0, ev |-> {}, readable |-> FALSE]

NoSrvCall == [op |-> "new", token |-> 0]

SInit ==
    /\ next_id = 2
    /\ conns = <<>>
    /\ allocs = <<>>
    /\ panicked = FALSE
    /\ now = 0
    /\ slast = NoSrvCall @@ [inserted |-> {}, removed |-> {}, closed |-> {},
                              evicted |-> {}, destroyed |-> {}]

Init ==
    /\ SInit
    /\ status = "Established"
    /\ readiness = {"readable"}
    /\ send_buffer = <<>>
    /\ sent = <<>>
    /\ registered = TRUE
    /\ polled = {"readable"}
    /\ sock_shutdown = FALSE
    /\ next_byte = 1
    /\ last = NoCall @@ [trace |-> <<>>, io |-> <<>>, regs |-> 0,
                         wfail |-> FALSE, rfail |-> FALSE, pfail |-> FALSE,
                         pre_status |-> "Established", pre_len |-> 0,
                         pre_writable |-> TRUE]

\* the n bytes dispatched next
NewBytes(n) == [i \in 1..n |-> next_byte + i - 1]

Dispatch ==
    \E n \in 0..MaxChunk :
        /\ next_byte + n - 1 <= MaxBytes
        /\ \E o \in SendOutcomes(Offered(Self, NewBytes(n))) :
              Becomes(dispatch(Self, NewBytes(n), o),
                      [NoCall EXCEPT !.op = "dispatch", !.n = n])
        /\ next_byte' = next_byte + n

ReadyEv ==
    \E ev \in Ready, rok \in BOOLEAN :
        /\ \E o \in SendOutcomes(Offered(Self, <<>>)) :
              Becomes(ready(Self, ev, rok, o),
                      [NoCall EXCEPT !.op = "ready", !.ev = ev])
        /\ UNCHANGED next_byte

Reregister ==
    \E readable \in BOOLEAN, ok \in BOOLEAN :
        /\ Becomes(reregister(Self, readable, ok),
                   [NoCall EXCEPT !.op = "reregister", !.readable = readable])
        /\ UNCHANGED next_byte

CheckClose ==
    /\ Becomes(check_close(Self), [NoCall EXCEPT !.op = "check_close"])
    /\ UNCHANGED next_byte

Shutdown ==
    \E ok \in BOOLEAN :
        /\ Becomes(shutdown(Self, ok), [NoCall EXCEPT !.op = "shutdown"])
        /\ UNCHANGED next_byte

Next ==
    \/ Dispatch
    \/ ReadyEv
    \/ Reregister
    \/ CheckClose
    \/ Shutdown

Spec == Init /\ [][Next]_vars

\* a write-ready event delivered to a draining backend whose writable
\* interest is registered, in which the socket takes at least one byte or
\* the write fails
Drain ==
    /\ status = "Shutdown"
    /\ registered
    /\ "writable" \in polled
    /\ \E ev \in Ready, rok \in BOOLEAN :
          /\ "writable" \in ev
          /\ \E o \in SendOutcomes(Offered(Self, <<>>)) :
                /\ o.k > 0 \/ o.out = "fail"
                /\ Becomes(ready(Self, ev, rok, o),
                           [NoCall EXCEPT !.op = "ready", !.ev = ev])
          /\ UNCHANGED next_byte

\* the owner's close check of a backend that is Closing
CloseCheck ==
    /\ status = "Closing"
    /\ CheckClose

\* the backend under an event loop that keeps delivering write-ready events
\* and whose owner keeps running the close check
SpecLive ==
    /\ Init
    /\ [][Next]_vars
    /\ WF_vars(Drain)
    /\ SF_vars(CloseCheck)

\* ------------------------------------------------------- reactor actions
SBecomes(r, op) ==
    /\ next_id' = r.next_id
    /\ conns' = r.conns
    /\ allocs' = r.allocs
    /\ panicked' = r.panicked
    /\ slast' = op @@ [inserted |-> r.inserted, removed |-> r.removed,
                        closed |-> r.closed, evicted |-> r.evicted,
                        destroyed |-> r.destroyed]
    /\ UNCHANGED bvars

\* an accepted stream: what happens to it, and for a connection that is set
\* up the idle timeout of its backend
Stream == [out : {"opt_fail", "setup_fail"}, tmo : {0}]
          \cup [out : {"ok"}, tmo : Timeouts]

\* number of streams of a batch that are given an index
Allocating(streams) ==
    Cardinality({i \in 1..Len(streams) :
                    streams[i].out \in {"setup_fail", "ok"}})

Accept ==
    /\ ~panicked
    /\ \E n \in 0..MaxPending :
         \E streams \in [1..n -> Stream], end \in {"would_block", "error"} :
            /\ Len(allocs) + Allocating(streams) <= MaxConns
            /\ SBecomes(accept(Srv, streams, end, now),
                        [NoSrvCall EXCEPT !.op = "accept"])
    /\ UNCHANGED now

ConnEvent ==
    /\ ~panicked
    /\ \E token \in 0..Token(MAX_INDEX + 1, CHANNEL_CNT - 1),
          touched \in BOOLEAN, destroyed \in BOOLEAN :
            SBecomes(do_conn_event(Srv, token, touched, destroyed, now),
                     [NoSrvCall EXCEPT !.op = "do_conn_event", !.token = token])
    /\ UNCHANGED now

CheckTimeout ==
    /\ ~panicked
    /\ \E order \in Orders(DOMAIN conns) :
            SBecomes(check_timeout(Srv, now, order),
                     [NoSrvCall EXCEPT !.op = "check_timeout"])
    /\ UNCHANGED now

Tick ==
    /\ ~panicked
    /\ now < MaxTime
    /\ now' = now + 1
    /\ slast' = [NoSrvCall EXCEPT !.op = "tick"]
                  @@ [inserted |-> {}, removed |-> {}, closed |-> {},
                      evicted |-> {}, destroyed |-> {}]
    /\ UNCHANGED <<bvars, next_id, conns, allocs, panicked>>

NextServer ==
    \/ Accept
    \/ ConnEvent
    \/ CheckTimeout
    \/ Tick

SpecServer == Init /\ [][NextServer]_vars

\* ================================================================ claims
\* The byte at position i of a sequence was dispatched before the one at i+1.
InDispatchOrder(q) == \A i \in 1..(Len(q) - 1) : q[i] < q[i + 1]

\* no operation failed in the step recorded by l
NoFailure(l) == ~l.rfail /\ ~l.wfail /\ ~l.pfail

\* C1: the bytes the socket has accepted, followed by the bytes still held
\* in send_buffer, are in the order in which they were dispatched: nothing
\* dispatched later is written or queued ahead of something dispatched
\* earlier, on the direct-write path and on the append-then-flush path.
C1_InOrderDelivery == InDispatchOrder(sent \o send_buffer)

\* C1 witness: a dispatch of new bytes found older bytes buffered, and the
\* socket has since accepted bytes of that dispatch behind the older ones.
C1_Witness ==
    /\ last.op = "dispatch"
    /\ last.pre_len > 0
    /\ last.n > 0
    /\ Len(sent) >= 2
    /\ sent[Len(sent)] >= next_byte - last.n

\* C2: no operation moves status to an earlier stage of
\* Established -> Shutdown -> Closing -> Closed.
C2_StatusMonotonic == [][Rank(status') >= Rank(status)]_vars

\* C3 as stated: after every operation the writable bit of readiness is set
\* if and only if send_buffer is non-empty.
C3_WritableIffBufferedAlways ==
    ("writable" \in readiness) <=> (send_buffer # <<>>)

\* C3 amended: after a reregister made in status Established or Shutdown, and
\* after a shutdown that found send_buffer non-empty, the writable bit of
\* readiness is set if and only if send_buffer is non-empty.
C3_WritableIffBufferedAfterSync ==
    (\/ last.op = "reregister" /\ last.pre_status \in {"Established", "Shutdown"}
     \/ last.op = "shutdown" /\ last.pre_len > 0)
    => (("writable" \in readiness) <=> (send_buffer # <<>>))

\* C3 witness: a shutdown with buffered bytes, on a backend whose interest
\* was not in step with the buffer, has forced writable interest.
C3_Witness ==
    /\ last.op = "shutdown"
    /\ last.pre_len > 0
    /\ status = "Shutdown"
    /\ readiness = {"writable"}
    /\ polled = {"writable"}

\* C4: a reregister made in status Established or Shutdown leaves the
\* writable bit equal to (send_buffer non-empty); a reregister made in status
\* Closing or Closed registers nothing with the poller and leaves the
\* interest set as it was.
C4_ReregisterSyncsWritable ==
    [][last'.op = "reregister" =>
          IF status \in {"Established", "Shutdown"}
          THEN ("writable" \in readiness') <=> (send_buffer' # <<>>)
          ELSE /\ readiness' = readiness
               /\ polled' = polled
               /\ last'.regs = 0
               /\ (registered' => registered)]_vars

\* C4 witness: a reregister of a live backend added writable interest for
\* buffered bytes and registered it with the poller.
C4_Witness ==
    /\ last.op = "reregister"
    /\ last.pre_status \in {"Established", "Shutdown"}
    /\ last.regs = 1
    /\ ~last.pfail
    /\ "writable" \in polled
    /\ send_buffer # <<>>

\* C5 as stated: a shutdown with a non-empty send_buffer leaves status
\* Shutdown, and a backend leaves Shutdown only to Closing, and only by a
\* successful flush that empties send_buffer.
C5_ShutdownDrainOnly ==
    [][/\ (last'.op = "shutdown" /\ send_buffer # <<>>) => status' = "Shutdown"
       /\ (status = "Shutdown" /\ status' # "Shutdown") =>
              (status' = "Closing" /\ send_buffer' = <<>> /\ NoFailure(last'))]_vars

\* C5 amended: a shutdown with a non-empty send_buffer leaves status Shutdown
\* with writable-only interest, unless its poller re-registration fails, and
\* then its trailing check_close leaves it Closed. A backend in Shutdown always
\* holds buffered bytes. It moves on to Closing exactly when a flush without
\* failure empties send_buffer, or when a read, a write or a re-registration
\* fails; it is Closed only by a check_close (the next one, or the one inside
\* a shutdown whose re-registration failed).
C5_ShutdownDrain ==
    [][/\ (last'.op = "shutdown" /\ send_buffer # <<>>) =>
              IF last'.pfail
              THEN status' = "Closed"
              ELSE status' = "Shutdown" /\ readiness' = {"writable"}
       /\ (status' = "Shutdown") => send_buffer' # <<>>
       /\ (status = "Shutdown" /\ NoFailure(last')) =>
              ((status' = "Closing") <=>
                   (send_buffer' = <<>> /\ last'.op \in {"dispatch", "ready"}))
       /\ (status = "Shutdown" /\ status' = "Closed") =>
              (last'.op = "shutdown" /\ last'.pfail)
       /\ (status = "Closing" /\ last'.op = "check_close") => status' = "Closed"
       /\ (status # "Closed" /\ status' = "Closed") =>
              last'.op \in {"check_close", "shutdown"}]_vars

\* C5 witness: a write-ready flush of a backend in Shutdown emptied the
\* buffer without failure and the backend is Closing.
C5_Witness ==
    /\ last.pre_status = "Shutdown"
    /\ last.op = "ready"
    /\ NoFailure(last)
    /\ last.pre_len > 0
    /\ send_buffer = <<>>
    /\ status = "Closing"

\* C6: a shutdown that finds send_buffer empty sets Closing and then Closed,
\* never Shutdown, and returns with the socket deregistered and shut down.
C6_ShutdownEmptyCloses ==
    (last.op = "shutdown" /\ last.pre_len = 0) =>
        /\ status = "Closed"
        /\ last.trace = <<"Closing", "Closed">>
        /\ ~registered
        /\ sock_shutdown

\* C6 witness: an Established backend with nothing buffered was shut down.
C6_Witness ==
    /\ last.op = "shutdown"
    /\ last.pre_len = 0
    /\ last.pre_status = "Established"
    /\ status = "Closed"

\* C7: writable() is true exactly when fewer than MAX_BUFFER_SIZE bytes are
\* buffered, and a dispatch whose write does not fail hard loses none of its
\* bytes whatever writable() said: every byte buffered or dispatched is
\* afterwards either accepted by the socket or in send_buffer.
C7_WritableAdvisory ==
    [][last'.op = "dispatch" =>
          /\ last'.pre_writable <=> (Len(send_buffer) < MAX_BUFFER_SIZE)
          /\ ~last'.wfail =>
                sent' \o send_buffer' = sent \o send_buffer \o NewBytes(last'.n)]_vars

\* C7 witness: a dispatch made while writable() was false was taken into the
\* buffer, which now holds more than MAX_BUFFER_SIZE bytes.
C7_Witness ==
    /\ last.op = "dispatch"
    /\ ~last.pre_writable
    /\ last.n > 0
    /\ ~last.wfail
    /\ Len(send_buffer) > MAX_BUFFER_SIZE

\* the indices of the connections of table cs idle for longer than their
\* timeout at instant t
Expired(cs, t) ==
    {i \in DOMAIN cs : t - cs[i].last_active > cs[i].get_timeout}

\* C8: check_timeout removes from the table exactly the connections whose
\* idle time strictly exceeds their timeout, calls close_now on exactly
\* those, and leaves every other entry as it was, in every iteration order.
C8_SweepRemovesExactlyExpired ==
    [][slast'.op = "check_timeout" =>
          /\ conns' = Remove(conns, Expired(conns, now))
          /\ slast'.removed = {conns[i].uid : i \in Expired(conns, now)}
          /\ slast'.closed = slast'.removed]_vars

\* C8 witness: a sweep reclaimed a connection and kept one whose idle time
\* equals its timeout.
C8_Witness ==
    /\ slast.op = "check_timeout"
    /\ slast.removed # {}
    /\ \E i \in DOMAIN conns : now - conns[i].last_active = conns[i].get_timeout

\* C9: decoding the token accept builds for index I gives I, for every I in
\* MIN_INDEX..MAX_INDEX, so every connection in the table is found under the
\* index its own token decodes to.
C9_TokenRoundTrip ==
    /\ \A i \in Indices : token2index(Token(i, CHANNEL_PROXY)) = i
    /\ \A i \in DOMAIN conns :
          /\ conns[i].token = Token(conns[i].index, CHANNEL_PROXY)
          /\ token2index(conns[i].token) = i

\* C9 witness: an event carrying the token of the connection with the
\* largest index was handled and that connection is in the table.
C9_Witness ==
    /\ slast.op = "do_conn_event"
    /\ MAX_INDEX \in DOMAIN conns
    /\ slast.token = conns[MAX_INDEX].token

\* C10: the k-th index next_index returns is MIN_INDEX + (k - 1) modulo the
\* size of MIN_INDEX..MAX_INDEX: allocation starts at MIN_INDEX, stays in
\* MIN_INDEX..MAX_INDEX and is back at MIN_INDEX after MAX_INDEX - MIN_INDEX + 1
\* allocations.
C10_IndexCycle ==
    /\ next_id \in Indices
    /\ \A k \in 1..Len(allocs) :
          allocs[k] = MIN_INDEX + ((k - 1) % (MAX_INDEX - MIN_INDEX + 1))

\* C10 witness: MAX_INDEX was allocated and the allocation after it returned
\* MIN_INDEX.
C10_Witness ==
    /\ Len(allocs) >= MAX_INDEX - MIN_INDEX + 2
    /\ allocs[MAX_INDEX - MIN_INDEX + 1] = MAX_INDEX
    /\ allocs[MAX_INDEX - MIN_INDEX + 2] = MIN_INDEX

\* the uids of the connections in the table
Live == {conns[i].uid : i \in DOMAIN conns}

\* C11: inserting an accepted connection never replaces a connection that
\* is in the table: accept never gives a new connection the index of a live
\* one.
C11_NoLiveIndexReuse == slast.evicted = {}

\* C14: when accept returns, every stream whose socket options were applied
\* and whose setup succeeded is in the table, and no stream whose setup
\* failed is.
C14_AcceptedIffSetUp ==
    slast.op = "accept" =>
        /\ slast.inserted \subseteq Live
        /\ slast.closed \cap Live = {}

\* C16: do_conn_event looks the event up under token / CHANNEL_CNT. With no
\* connection under that index the table is unchanged. Otherwise only that
\* entry can change: it is removed if and only if the connection reported
\* itself destroyed, and else it is the same connection, at most with its
\* activity recorded; no connection is closed or inserted, and a destroyed
\* connection is not left in the table.
C16_EventTouchesOnlyItsConnection ==
    [][slast'.op = "do_conn_event" =>
          LET i == slast'.token \div CHANNEL_CNT
          IN  /\ slast'.inserted = {} /\ slast'.closed = {} /\ slast'.evicted = {}
              /\ slast'.removed = slast'.destroyed
              /\ slast'.destroyed \cap {conns'[j].uid : j \in DOMAIN conns'} = {}
              /\ IF i \notin DOMAIN conns
                 THEN conns' = conns /\ slast'.destroyed = {}
                 ELSE /\ slast'.destroyed \subseteq {conns[i].uid}
                      /\ DOMAIN conns' = IF slast'.destroyed = {}
                                         THEN DOMAIN conns
                                         ELSE DOMAIN conns \ {i}
                      /\ \A j \in DOMAIN conns' \ {i} : conns'[j] = conns[j]
                      /\ i \in DOMAIN conns' =>
                            \/ conns'[i] = conns[i]
                            \/ conns'[i] = [conns[i] EXCEPT !.last_active = now]]_vars

\* C16 witness: an event for one of two connections in the table was
\* handled, that connection reported itself destroyed and was removed, and
\* the other one is still there.
C16_Witness ==
    /\ slast.op = "do_conn_event"
    /\ slast.destroyed # {}
    /\ token2index(slast.token) \notin DOMAIN conns
    /\ conns # <<>>

\* the backend fields an operation can change
bfields == <<status, readiness, send_buffer, sent, registered, polled,
             sock_shutdown>>

\* C12: a check_close that finds status Closing deregisters the socket, shuts
\* it down and sets Closed, and nothing else; a check_close that finds any
\* other status changes nothing and assigns no status; a second check_close
\* gives the state the first one gave.
C12_CheckCloseIdempotent ==
    [][last'.op = "check_close" =>
          /\ IF status = "Closing"
             THEN /\ status' = "Closed"
                  /\ ~registered'
                  /\ sock_shutdown'
                  /\ last'.trace = <<"Closed">>
                  /\ UNCHANGED <<readiness, send_buffer, sent, polled>>
             ELSE /\ UNCHANGED bfields
                  /\ last'.trace = <<>>
          /\ check_close(check_close(Self)) = check_close(Self)
          /\ last'.io = <<>>]_vars

\* C12 witness: check_close was called again on a backend it had already
\* closed.
C12_Witness ==
    /\ last.op = "check_close"
    /\ last.pre_status = "Closed"
    /\ status = "Closed"
    /\ sock_shutdown
    /\ ~registered

\* the step recorded by l hit a connection-fatal error
Failed(l) == l.rfail \/ l.wfail \/ l.pfail

\* C13: an operation in which a read, a write or a poller re-registration
\* failed has set status Closing and returns with status Closing, or, for a
\* shutdown, Closed through its own trailing check_close; the next
\* check_close of a Closing backend tears it down.
C13_FailureRecordedAsClosing ==
    [][/\ Failed(last') =>
             /\ \E i \in 1..Len(last'.trace) : last'.trace[i] = "Closing"
             /\ \/ status' = "Closing"
                \/ last'.op = "shutdown" /\ status' = "Closed" /\ sock_shutdown'
       /\ (status = "Closing" /\ last'.op = "check_close") =>
             (status' = "Closed" /\ sock_shutdown' /\ ~registered')]_vars

\* C13 witness: the poller re-registration of a reregister failed and the
\* backend is Closing.
C13_Witness ==
    /\ last.op = "reregister"
    /\ last.pfail
    /\ status = "Closing"

\* C15: no read or write is attempted on the socket while status is Closing
\* or Closed.
C15_NoIoOnceClosing ==
    \A i \in 1..Len(last.io) : last.io[i][2] \notin {"Closing", "Closed"}

\* C17: a ready call dispatches no new bytes; its reads come before its
\* writes, and a readable event starts with a read; send_buffer afterwards is
\* a suffix of send_buffer before, so it never grows; without the writable
\* bit the buffer and the bytes written are untouched.
C17_ReadThenFlushOnly ==
    [][last'.op = "ready" =>
          /\ next_byte' = next_byte
          /\ \E k \in 0..Len(send_buffer) :
                send_buffer' = SubSeq(send_buffer, k + 1, Len(send_buffer))
          /\ \A i, j \in 1..Len(last'.io) :
                i < j => ~(last'.io[i][1] = "write" /\ last'.io[j][1] = "read")
          /\ "readable" \in last'.ev =>
                (Len(last'.io) >= 1 /\ last'.io[1][1] = "read")
          /\ "writable" \notin last'.ev =>
                (send_buffer' = send_buffer /\ sent' = sent)]_vars

\* C17 witness: an event both readable and writable was handled with bytes
\* buffered: one read, then one write that flushed part of the buffer.
C17_Witness ==
    /\ last.op = "ready"
    /\ last.ev = {"readable", "writable"}
    /\ Len(last.io) = 2
    /\ last.io[1][1] = "read"
    /\ last.io[2][1] = "write"
    /\ send_buffer # <<>>
    /\ Len(send_buffer) < last.pre_len

\* C18 as stated: a backend in Shutdown has writable-only interest.
C18_ShutdownWritableOnly ==
    status = "Shutdown" => readiness = {"writable"}

\* C18 amended: a shutdown that finds send_buffer non-empty leaves
\* writable-only interest; while status is Shutdown only reregister changes
\* the interest set: it keeps the writable bit and sets the readable bit as
\* its caller asks.
C18_ShutdownInterest ==
    [][/\ (last'.op = "shutdown" /\ send_buffer # <<>>) =>
             readiness' = {"writable"}
       /\ (status = "Shutdown" /\ last'.op = "reregister") =>
             readiness' = IF last'.readable
                          THEN {"readable", "writable"}
                          ELSE {"writable"}
       /\ (status = "Shutdown" /\ last'.op \notin {"reregister", "shutdown"}) =>
             readiness' = readiness]_vars

\* C18 witness: a reregister asking for readable interest was made on a
\* backend in Shutdown, which is still in Shutdown, with readable interest.
C18_Witness ==
    /\ last.op = "reregister"
    /\ last.pre_status = "Shutdown"
    /\ last.readable
    /\ status = "Shutdown"
    /\ readiness = {"readable", "writable"}
    /\ polled = {"readable", "writable"}

\* every byte dispatched so far is, once and in order, either accepted by
\* the socket or in send_buffer
Accounted == sent \o send_buffer = [i \in 1..(next_byte - 1) |-> i]

====
